---- MODULE Spec2Model ----
(***************************************************************************)
(* ExperiScript: the assembler (compiler.py) and the virtual machine       *)
(* (vm.py).  A program text (a finite list of calls on the emitter API,    *)
(* like the one at the bottom of compiler.py) is assembled call by call,   *)
(* built, linked, serialized to a bit string, parsed by the VM's           *)
(* StringParser and executed by VM.run, one loop iteration per step.       *)
(***************************************************************************)
EXTENDS Integers, Sequences, FiniteSets, TLC

(***************************************************************************)
(* Program constants (ControlCodes, the register table, category starts).  *)
(***************************************************************************)
MOVE == 1
CONTROL == 2
MATH == 3
MEMORY == 4
ONE == 251
ZERO == 252
Move_MOVE == 0
Move_MOVE_I == 1
Math_ADD == 0
Math_ADD_I == 1
Math_SUB == 2
Math_SUB_I == 3
Memory_LOAD == 0
Memory_STORE == 1
Control_IF_I == 0
Control_JUMP == 3
Control_JUMP_I == 5
Control_JUMP_NOT_TRUE == 6
Compare_EQUAL == 0
TableSize == 255
VariableStart == 50
GlobalStart == 100
SystemStart == 125
StaticStart == 240
StackPointerStart == 250
FrpBase == 150

(***************************************************************************)
(* Bounds of the model.                                                    *)
(***************************************************************************)
\* The deepest chain of nested calls in a call scenario.
MaxDepth == 2
\* Constants of the scenarios range over 0 .. MaxConst (and a few more).
MaxConst == 1
\* The number of free calls after the setup of a short program text.
MaxOps == 2
\* The number of allocate and release calls of an allocator text.
MaxAllocOps == 4
\* The number of VM.run iterations followed.
MaxSteps == 40

\* Python's None, where an integer is expected (an unresolved marker line,
\* a missing argument).
None == 0 - 1000000

Slots == 0 .. (TableSize - 1)

(***************************************************************************)
(* Values an instruction list can hold before linking: a number, a         *)
(* Register object (category c, slot v, owning script s), a JumpMarker     *)
(* (number v) or a Function.                                                *)
(***************************************************************************)
Num(n) == [t |-> "Num", v |-> n, c |-> "", s |-> 0]
Reg(cat, slot, owner) == [t |-> "Reg", v |-> slot, c |-> cat, s |-> owner]
Marker(id) == [t |-> "Marker", v |-> id, c |-> "", s |-> 0]
\* A Function object: its number v and its start_jump_marker s.
Fn(k, m) == [t |-> "Fn", v |-> k, c |-> "", s |-> m]

isRegister(x) == x.t = "Reg"
isVariableRegister(x) == x.t = "Reg" /\ x.c = "Variable"

\* Entries of a bytecode list.
Instruction(fields) == [k |-> "Instruction", f |-> fields, line |-> None]
LogInstruction == [k |-> "LogInstruction", f |-> <<>>, line |-> None]
MarkerEntry(id) == [k |-> "JumpMarker", f |-> <<Marker(id)>>, line |-> None]

(***************************************************************************)
(* The register allocator: Register._registers and Register.__init__.      *)
(***************************************************************************)
start(cat) ==
    CASE cat = "Variable" -> VariableStart
      [] cat = "Global" -> GlobalStart
      [] cat = "System" -> SystemStart
      [] cat = "Static" -> StaticStart
      [] cat = "StackPointer" -> StackPointerStart

FreeFrom(table, from) == {i \in Slots : i >= from /\ table[i] = "None"}

Min(S) == CHOOSE x \in S : \A y \in S : x <= y

\* Faulty variant: the "+ self.start" of line 75 forgotten.
FirstFree_NoOffset(table, from) ==
    IF FreeFrom(table, from) = {} THEN None
    ELSE Min(FreeFrom(table, from)) - from

\* registers[start:].index(None) + start; None when index() raises.
FirstFree(table, from) ==
    IF FreeFrom(table, from) = {} THEN None ELSE Min(FreeFrom(table, from))

(***************************************************************************)
(* The assembler's state as one record, threaded through the emitter       *)
(* operations: the register table, every script's bytecode list (0 is the  *)
(* main Script, k >= 1 is Function k), the JumpMarker counter, the object  *)
(* the last constructor returned and whether an exception was raised.      *)
(***************************************************************************)
Asm(table, code, jm, fs) ==
    [registers |-> table, bytecode |-> code, jump_marker |-> jm,
     functions |-> fs, ret |-> Num(None), err |-> FALSE]

Raise(E) == [E EXCEPT !.err = TRUE]

append(E, e, entry) ==
    [E EXCEPT !.bytecode[e] = Append(E.bytecode[e], entry)]

\* Register.__init__(script, register=force)
Register_init(E, cat, owner, force) ==
    LET slot == IF force = None THEN FirstFree(E.registers, start(cat)) ELSE force
    IN  IF E.err \/ slot = None THEN Raise(E)
        ELSE [E EXCEPT !.registers[slot] = cat, !.ret = Reg(cat, slot, owner)]

\* Register.free
Register_free(E, r) ==
    IF E.err \/ ~isRegister(r) THEN Raise(E)
    ELSE [E EXCEPT !.registers[r.v] = "None"]

\* JumpMarker.__init__
JumpMarker_init(E) ==
    [E EXCEPT !.jump_marker = E.jump_marker + 1, !.ret = Marker(E.jump_marker + 1)]

\* GenericScript.add
GenericScript_add(E, e, output, in1, in2) ==
    IF isVariableRegister(in2)
    THEN append(E, e, Instruction(<<Num(MATH), Num(Math_ADD), output, in1, in2>>))
    ELSE append(E, e, Instruction(<<Num(MATH), Num(Math_ADD_I), output, in1, in2>>))

\* GenericScript.sub
GenericScript_sub(E, e, output, in1, in2) ==
    IF isVariableRegister(in2)
    THEN append(E, e, Instruction(<<Num(MATH), Num(Math_SUB), output, in1, in2>>))
    ELSE append(E, e, Instruction(<<Num(MATH), Num(Math_SUB_I), output, in1, in2>>))

zero == Reg("Static", ZERO, 0)
one == Reg("Static", ONE, 0)

\* Register.set; StaticRegister.set raises.
Register_set(E, r, value) ==
    IF E.err \/ ~isRegister(r) \/ r.c = "Static" THEN Raise(E)
    ELSE GenericScript_add(E, r.s, r, zero, value)

\* StackPointer.load
StackPointer_load(E, sp, variable) ==
    append(E, sp.s, Instruction(<<Num(MEMORY), Num(Memory_LOAD), sp, variable>>))

\* StackPointer.store
StackPointer_store(E, sp, value) ==
    append(E, sp.s, Instruction(<<Num(MEMORY), Num(Memory_STORE), sp, value>>))

\* StackPointer.push: the Variable register of line 141 is never freed.
StackPointer_push(E, sp, value) ==
    LET E1 == append(E, sp.s, LogInstruction)
        E2 == Register_init(E1, "Variable", sp.s, None)
        E3 == GenericScript_add(E2, sp.s, sp, sp, Num(1))
    IN  IF E2.err THEN E2 ELSE StackPointer_store(E3, sp, value)

\* Faulty variant: pop() forgets to decrement the pointer.
StackPointer_pop_NoDecrement(E, sp, variable) ==
    StackPointer_load(append(E, sp.s, LogInstruction), sp, variable)

\* StackPointer.pop
StackPointer_pop(E, sp, variable) ==
    LET E1 == append(E, sp.s, LogInstruction)
        E2 == StackPointer_load(E1, sp, variable)
    IN  GenericScript_sub(E2, sp.s, sp, sp, Num(1))

\* StackPointer.__init__(script, mem_start, force)
StackPointer_init(E, owner, mem_start, force) ==
    LET E1 == Register_init(E, "StackPointer", owner, force)
    IN  IF E1.err \/ force # None THEN E1
        ELSE [Register_set(E1, E1.ret, Num(mem_start)) EXCEPT !.ret = E1.ret]

\* script.function_return_pointer: every script has its own StackPointer
\* object, all of them on the slot the main Script's allocation returned.
function_return_pointer(e) == Reg("StackPointer", StackPointerStart, e)
\* GenericScript.jump
GenericScript_jump(E, e, loc) ==
    IF isVariableRegister(loc)
    THEN append(E, e, Instruction(<<Num(CONTROL), Num(Control_JUMP), loc>>))
    ELSE IF loc.t = "Fn"
    THEN append(E, e, Instruction(<<Num(CONTROL), Num(Control_JUMP_I), Marker(loc.s)>>))
    ELSE append(E, e, Instruction(<<Num(CONTROL), Num(Control_JUMP_I), loc>>))

\* GenericScript.call
GenericScript_call(E, e, function) ==
    LET E1 == JumpMarker_init(E)
        jump_marker == E1.ret
        E2 == StackPointer_push(E1, function_return_pointer(e), jump_marker)
        E3 == GenericScript_jump(E2, e, function)
    IN  IF E2.err THEN E2 ELSE append(E3, e, MarkerEntry(jump_marker.v))

\* GenericScript.add_if: the System register `result` is never freed.
GenericScript_add_if(E, e, compare, var1, var2, function) ==
    LET E1 == append(append(E, e, LogInstruction), e, LogInstruction)
        E2 == Register_init(E1, "System", e, None)
        result == E2.ret
        E3 == append(E2, e, Instruction(
                  <<Num(CONTROL), Num(Control_IF_I), compare, var1, var2, result>>))
        E4 == JumpMarker_init(E3)
        jump_marker == E4.ret
        E5 == append(E4, e, Instruction(
                  <<Num(CONTROL), Num(Control_JUMP_NOT_TRUE), result, jump_marker>>))
        E6 == StackPointer_push(E5, function_return_pointer(e), jump_marker)
        E7 == GenericScript_jump(E6, e, function)
        E8 == append(E7, e, MarkerEntry(jump_marker.v))
    IN  IF E2.err THEN E2
        ELSE IF E6.err THEN E6
        ELSE append(append(E8, e, LogInstruction), e, LogInstruction)

\* One "if not isinstance(x, VariableRegister)" block of move (lines 241-252):
\* a constant argument is copied into a fresh System register.
move_temp(E, e, arg, default) ==
    IF isVariableRegister(arg) THEN [E EXCEPT !.ret = default]
    ELSE LET E1 == Register_init(E, "System", e, None)
         IN  IF E1.err THEN E1
             ELSE [Register_set(E1, E1.ret, arg) EXCEPT !.ret = E1.ret]

\* GenericScript.move.  Line 236 initialises rldir from rdir, and lines
\* 264-267 call free() on all four operands, whatever they are.
GenericScript_move(E, e, ldir, rdir, lspeed, rspeed) ==
    IF isVariableRegister(ldir) \/ isVariableRegister(rdir)
       \/ isVariableRegister(lspeed) \/ isVariableRegister(rspeed)
    THEN LET E1 == move_temp(E, e, ldir, rdir)
             rldir == E1.ret
             E2 == move_temp(E1, e, rdir, rdir)
             rrdir == E2.ret
             E3 == move_temp(E2, e, lspeed, lspeed)
             rlspeed == E3.ret
             E4 == move_temp(E3, e, rspeed, rspeed)
             rrspeed == E4.ret
             E5 == append(E4, e, Instruction(
                       <<Num(MOVE), Num(Move_MOVE_I), rldir, rrdir, rlspeed, rrspeed>>))
         IN  IF E1.err THEN E1
             ELSE IF E2.err THEN E2
             ELSE IF E3.err THEN E3
             ELSE IF E4.err THEN E4
             ELSE Register_free(Register_free(Register_free(
                      Register_free(E5, rldir), rrdir), rlspeed), rrspeed)
    ELSE append(E, e, Instruction(
             <<Num(MOVE), Num(Move_MOVE), ldir, rdir, lspeed, rspeed>>))

\* Function.__init__: GenericScript.__init__ with a parent script, then the
\* entry marker; k is the new function's number and bytecode list.
Function_init(E, k) ==
    LET E1 == StackPointer_init(E, k, FrpBase, StackPointerStart)
        E2 == JumpMarker_init(E1)
    IN  [E2 EXCEPT !.bytecode = E2.bytecode @@
                       (k :> <<LogInstruction, MarkerEntry(E2.ret.v)>>),
                   !.ret = Fn(k, E2.ret.v)]

\* Function.end
Function_end(E, k) ==
    LET E1 == append(E, k, LogInstruction)
        E2 == Register_init(E1, "System", k, None)
        pop_pointer == E2.ret
        E3 == StackPointer_pop(E2, function_return_pointer(k), pop_pointer)
        E4 == GenericScript_jump(E3, k, pop_pointer)
        E5 == append(Register_free(E4, pop_pointer), k, LogInstruction)
    IN  IF E2.err THEN E2
        ELSE append([E5 EXCEPT !.functions = Append(E5.functions, k)],
                    k, LogInstruction)

(***************************************************************************)
(* Build, link and serialize (Script.build, GenericScript.build,           *)
(* Script.link, Script.construct).                                         *)
(***************************************************************************)
RECURSIVE Flatten(_, _)
\* "for function in self.functions: functions += function.bytecode"
Flatten(fs, code) ==
    IF fs = <<>> THEN <<>> ELSE code[Head(fs)] \o Flatten(Tail(fs), code)

\* Script.build, line 453: prologue + function bodies + main body.
Script_stream(prologue, fs, code) ==
    prologue \o Flatten(fs, code) \o code[0]

\* instruction_count when the loop of GenericScript.build reaches entry i.
instruction_count(stream, i) ==
    Cardinality({j \in 1 .. (i - 1) : stream[j].k = "Instruction"})

\* Faulty variant: a jump marker consumes an address too.
GenericScript_build_CountMarkers(stream) ==
    [i \in 1 .. Len(stream) |->
        IF stream[i].k = "Instruction"
        THEN [stream[i] EXCEPT !.line =
                 Cardinality({j \in 1 .. (i - 1) : stream[j].k # "LogInstruction"})]
        ELSE LogInstruction]

\* GenericScript.build: the list it returns (a marker leaves a log entry).
GenericScript_build(stream) ==
    [i \in 1 .. Len(stream) |->
        IF stream[i].k = "Instruction"
        THEN [stream[i] EXCEPT !.line = instruction_count(stream, i)]
        ELSE LogInstruction]

\* GenericScript.build, line 393: the line given to marker m (the last
\* placement wins; None when the marker is not in the stream).
marker_line(stream, m) ==
    LET at == {i \in 1 .. Len(stream) :
                 stream[i].k = "JumpMarker" /\ stream[i].f[1].v = m}
    IN  IF at = {} THEN None
        ELSE instruction_count(stream, CHOOSE i \in at : \A j \in at : j <= i)

\* Script.link, lines 465-472: one operand resolved.
link_arg(arg, lines) ==
    CASE arg.t = "Reg" -> arg.v
      [] arg.t = "Marker" -> lines[arg.v]
      [] OTHER -> arg.v

\* Script.link: operands resolved, the length prepended.  A Function
\* operand has no attribute `instruction`: linking raises.
Script_link(instructions, lines) ==
    [i \in 1 .. Len(instructions) |->
        IF instructions[i].k = "Instruction"
        THEN [instructions[i] EXCEPT !.f =
                 <<Len(instructions[i].f)>> \o
                 [j \in 1 .. Len(instructions[i].f) |->
                     link_arg(instructions[i].f[j], lines)]]
        ELSE instructions[i]]

link_raises(instructions) ==
    \E i \in 1 .. Len(instructions) :
        \E j \in 1 .. Len(instructions[i].f) : instructions[i].f[j].t = "Fn"

RECURSIVE bin(_)
\* The binary digits of n > 0, most significant first.
bin(n) == IF n = 0 THEN <<>> ELSE bin(n \div 2) \o <<IF n % 2 = 1 THEN "1" ELSE "0">>

pad(digits, width) ==
    [i \in 1 .. (IF Len(digits) < width THEN width - Len(digits) ELSE 0) |-> "0"]
        \o digits

\* format(x, '08b'): at least 8 characters, the sign included.
format_08b(x) ==
    IF x < 0 THEN <<"-">> \o pad(bin(0 - x), 7) ELSE pad(bin(x), 8)

RECURSIVE join_fields(_)
join_fields(fields) ==
    IF fields = <<>> THEN <<>>
    ELSE format_08b(Head(fields)) \o join_fields(Tail(fields))

RECURSIVE Script_construct(_)
\* Script.construct
Script_construct(instructions) ==
    IF instructions = <<>> THEN <<>>
    ELSE (IF Head(instructions).k = "Instruction"
          THEN join_fields(Head(instructions).f) ELSE <<>>)
         \o Script_construct(Tail(instructions))

RECURSIVE Script_string(_, _)
\* Script.string: the lines of the annotated output, one per real
\* instruction (its address and field list) and, with show_log, one per
\* log entry.
Script_string(instructions, show_log) ==
    IF instructions = <<>> THEN <<>>
    ELSE LET h == Head(instructions)
         IN  (IF h.k = "Instruction"
              THEN <<[number |-> h.line, fields |-> h.f]>>
              ELSE IF show_log THEN <<[number |-> None, fields |-> <<>>]>>
              ELSE <<>>)
             \o Script_string(Tail(instructions), show_log)

\* format(None, '08b') raises TypeError.
construct_raises(instructions) ==
    \E i \in 1 .. Len(instructions) :
        instructions[i].k = "Instruction" /\
        \E j \in 1 .. Len(instructions[i].f) : instructions[i].f[j] = None

(***************************************************************************)
(* The VM's loader: the input filter of vm.py line 173 and StringParser.   *)
(***************************************************************************)
input_filter(str) == SelectSeq(str, LAMBDA ch : ch = "0" \/ ch = "1")

RECURSIVE int2(_, _, _)
\* int(s, 2) of the characters str[from .. to].
int2(str, from, to) ==
    IF to < from THEN 0
    ELSE 2 * int2(str, from, to - 1) + (IF str[to] = "1" THEN 1 ELSE 0)

\* StringParser.byte at position pos: [ok, value, next position];
\* int('', 2) raises ValueError.
StringParser_byte(str, pos) ==
    LET to == IF pos + 7 <= Len(str) THEN pos + 7 ELSE Len(str)
    IN  [ok |-> pos <= Len(str), value |-> int2(str, pos, to), next |-> to + 1]

RECURSIVE read_fields(_, _, _, _)
\* The while loop of StringParser.parse, lines 160-162.
read_fields(str, pos, instruction, length) ==
    IF Len(instruction) <= length
    THEN LET b == StringParser_byte(str, pos)
         IN  IF ~b.ok THEN [ok |-> FALSE, ins |-> instruction, next |-> pos]
             ELSE read_fields(str, b.next, Append(instruction, b.value), length)
    ELSE [ok |-> TRUE, ins |-> instruction, next |-> pos]

RECURSIVE StringParser_parse(_, _)
\* StringParser.parse on str[pos ..]: [ok, instructions].
StringParser_parse(str, pos) ==
    LET l == StringParser_byte(str, pos)
        r == read_fields(str, l.next, <<l.value>>, l.value)
        rest == StringParser_parse(str, r.next)
    IN  IF ~l.ok THEN [ok |-> FALSE, instructions |-> <<>>]
        ELSE IF ~r.ok THEN [ok |-> FALSE, instructions |-> <<>>]
        ELSE IF r.next <= Len(str)
        THEN [ok |-> rest.ok, instructions |-> <<r.ins>> \o rest.instructions]
        ELSE [ok |-> TRUE, instructions |-> <<r.ins>>]

(***************************************************************************)
(* The virtual machine: Memory, AMU, Robot and VM.  A VM value is the      *)
(* memory, the program counter and whether a Python exception was raised.  *)
(***************************************************************************)
\* A Python list index into the 255-slot array: -255 .. 254 are accepted.
valid(i) == (0 - TableSize) <= i /\ i < TableSize
at(i) == IF i < 0 THEN i + TableSize ELSE i

\* Memory.__init__
Memory_init == [i \in Slots |-> IF i = ONE THEN 1 ELSE 0]

\* Memory.set
Memory_set(vm, register, value) ==
    IF ~valid(register) THEN [vm EXCEPT !.err = TRUE]
    ELSE [vm EXCEPT !.memory[at(register)] = value]

\* Memory.get (of a valid index)
Memory_get(vm, register) == vm.memory[at(register)]

\* Faulty variant: store writes the content of the slot the second operand names.
Memory_store_Indirect(vm, register, value) ==
    IF ~valid(register) \/ ~valid(value) THEN [vm EXCEPT !.err = TRUE]
    ELSE IF ~valid(Memory_get(vm, register)) THEN [vm EXCEPT !.err = TRUE]
    ELSE [vm EXCEPT !.memory[at(Memory_get(vm, register))] = Memory_get(vm, value)]

\* Memory.store: registers[registers[register]] = value
Memory_store(vm, register, value) ==
    IF ~valid(register) THEN [vm EXCEPT !.err = TRUE]
    ELSE IF ~valid(Memory_get(vm, register)) THEN [vm EXCEPT !.err = TRUE]
    ELSE [vm EXCEPT !.memory[at(Memory_get(vm, register))] = value]

\* Memory.load: registers[dest] = registers[registers[register]]
Memory_load(vm, register, dest) ==
    IF ~valid(register) THEN [vm EXCEPT !.err = TRUE]
    ELSE IF ~valid(Memory_get(vm, register)) THEN [vm EXCEPT !.err = TRUE]
    ELSE Memory_set(vm, dest, Memory_get(vm, Memory_get(vm, register)))

\* AMU.add
AMU_add(vm, output, reg1, reg2) ==
    IF ~valid(reg1) \/ ~valid(reg2) THEN [vm EXCEPT !.err = TRUE]
    ELSE Memory_set(vm, output, Memory_get(vm, reg1) + Memory_get(vm, reg2))

\* AMU.add_immediate
AMU_add_immediate(vm, output, reg1, reg2) ==
    IF ~valid(reg1) THEN [vm EXCEPT !.err = TRUE]
    ELSE Memory_set(vm, output, Memory_get(vm, reg1) + reg2)

\* AMU.sub
AMU_sub(vm, output, reg1, reg2) ==
    IF ~valid(reg1) \/ ~valid(reg2) THEN [vm EXCEPT !.err = TRUE]
    ELSE Memory_set(vm, output, Memory_get(vm, reg1) - Memory_get(vm, reg2))

\* AMU.sub_immediate
AMU_sub_immediate(vm, output, reg1, reg2) ==
    IF ~valid(reg1) THEN [vm EXCEPT !.err = TRUE]
    ELSE Memory_set(vm, output, Memory_get(vm, reg1) - reg2)

\* Robot.move and Robot.move_immediate only log.
Robot_move(vm, ld, rd, ls, rs) == vm
Robot_move_immediate(vm, ld, rd, ls, rs) == vm

\* VM.if_immediate: True and False are stored as 1 and 0.
VM_if_immediate(vm, compare, var1, var2, result) ==
    IF ~valid(var1) \/ ~valid(var2) THEN [vm EXCEPT !.err = TRUE]
    ELSE IF compare = Compare_EQUAL
    THEN Memory_set(vm, result,
             IF Memory_get(vm, var1) = Memory_get(vm, var2) THEN 1 ELSE 0)
    ELSE vm

\* VM.jump
VM_jump(vm, location) ==
    IF ~valid(location) THEN [vm EXCEPT !.err = TRUE]
    ELSE [vm EXCEPT !.current_idx = Memory_get(vm, location)]

\* VM.jump_immediate
VM_jump_immediate(vm, location) == [vm EXCEPT !.current_idx = location]

\* VM.jump_not_true: "if self.memory.get(register): self.current_idx = location"
VM_jump_not_true(vm, register, location) ==
    IF ~valid(register) THEN [vm EXCEPT !.err = TRUE]
    ELSE IF Memory_get(vm, register) # 0 THEN [vm EXCEPT !.current_idx = location]
    ELSE vm

\* VM.instruction_map: the operation of (control, control_sub), "KeyError"
\* when the pair is not in the map.
instruction_map(control, control_sub) ==
    CASE control = MOVE /\ control_sub = Move_MOVE -> "move"
      [] control = MOVE /\ control_sub = Move_MOVE_I -> "move_immediate"
      [] control = MATH /\ control_sub = Math_ADD -> "add"
      [] control = MATH /\ control_sub = Math_ADD_I -> "add_immediate"
      [] control = MATH /\ control_sub = Math_SUB -> "sub"
      [] control = MATH /\ control_sub = Math_SUB_I -> "sub_immediate"
      [] control = CONTROL /\ control_sub = Control_IF_I -> "if_immediate"
      [] control = CONTROL /\ control_sub = Control_JUMP -> "jump"
      [] control = CONTROL /\ control_sub = Control_JUMP_I -> "jump_immediate"
      [] control = CONTROL /\ control_sub = Control_JUMP_NOT_TRUE -> "jump_not_true"
      [] control = MEMORY /\ control_sub = Memory_LOAD -> "load"
      [] control = MEMORY /\ control_sub = Memory_STORE -> "store"
      [] OTHER -> "KeyError"

\* The number of parameters of each operation.
arity(func) ==
    CASE func \in {"move", "move_immediate", "if_immediate"} -> 4
      [] func \in {"add", "add_immediate", "sub", "sub_immediate"} -> 3
      [] func \in {"load", "store", "jump_not_true"} -> 2
      [] OTHER -> 1

\* The @skip_increment decorator.
skip_increment(func) == func \in {"jump", "jump_immediate", "jump_not_true"}

\* func(*instruction_args)
apply(vm, func, a) ==
    CASE func = "move" -> Robot_move(vm, a[1], a[2], a[3], a[4])
      [] func = "move_immediate" -> Robot_move_immediate(vm, a[1], a[2], a[3], a[4])
      [] func = "add" -> AMU_add(vm, a[1], a[2], a[3])
      [] func = "add_immediate" -> AMU_add_immediate(vm, a[1], a[2], a[3])
      [] func = "sub" -> AMU_sub(vm, a[1], a[2], a[3])
      [] func = "sub_immediate" -> AMU_sub_immediate(vm, a[1], a[2], a[3])
      [] func = "if_immediate" -> VM_if_immediate(vm, a[1], a[2], a[3], a[4])
      [] func = "jump" -> VM_jump(vm, a[1])
      [] func = "jump_immediate" -> VM_jump_immediate(vm, a[1])
      [] func = "jump_not_true" -> VM_jump_not_true(vm, a[1], a[2])
      [] func = "load" -> Memory_load(vm, a[1], a[2])
      [] func = "store" -> Memory_store(vm, a[1], a[2])

\* instructions[current_idx], a Python index (negative ones count from
\* the end); <<>> stands for IndexError.
fetch(program, idx) ==
    IF idx >= 0 THEN program[idx + 1]
    ELSE IF idx >= 0 - Len(program) THEN program[Len(program) + idx + 1]
    ELSE <<>>

\* One iteration of the loop of VM.run, lines 108-119.
VM_run(vm, program) ==
    LET current_instruction == fetch(program, vm.current_idx)
        func == instruction_map(current_instruction[2], current_instruction[3])
        instruction_args ==
            SubSeq(current_instruction, 4, Len(current_instruction))
        done == apply(vm, func, instruction_args)
    IN  IF Len(current_instruction) < 3 THEN [vm EXCEPT !.err = TRUE]
        ELSE IF func = "KeyError" \/ Len(instruction_args) # arity(func)
        THEN [vm EXCEPT !.err = TRUE]
        ELSE IF done.err \/ skip_increment(func) THEN done
        ELSE [done EXCEPT !.current_idx = done.current_idx + 1]

(***************************************************************************)
(* The program text: the calls a user script makes on the emitter API, in  *)
(* order.  A call names its operation, the script e it is made on (0 the   *)
(* main Script, k the k-th Function) and its arguments: a number, the i-th *)
(* register object the text created so far, script.zero, script.one, the   *)
(* script's function_return_pointer, the k-th Function or its entry        *)
(* marker.                                                                 *)
(***************************************************************************)
N(n) == [t |-> "num", v |-> n]
U(i) == [t |-> "var", v |-> i]
Z == [t |-> "zero", v |-> 0]
O == [t |-> "one", v |-> 0]
FRP == [t |-> "frp", v |-> 0]
F(k) == [t |-> "fn", v |-> k]
Entry(k) == [t |-> "entry", v |-> k]

Call(op, e, args) == [op |-> op, e |-> e, a |-> args]

VARIABLES
    prog,               \* the program text (never changes)
    ip,                 \* the next call of the text to execute
    uregs,              \* the register objects the text created, in order
    registers,          \* Register._registers
    bytecode,           \* script -> its bytecode list
    start_bytecode,     \* Script.start_bytecode
    functions,          \* Script.functions (function numbers)
    jump_marker,        \* JumpMarker._jump_marker
    func_counter,       \* Function._func_counter
    start_jump_marker,  \* script -> number of its start_jump_marker
    final,              \* the list build returns and link rewrites
    line,               \* marker number -> JumpMarker.line
    output,             \* what the assembler prints (the VM's stdin)
    instructions,       \* VM.instructions
    memory,             \* Memory.registers
    current_idx,        \* VM.current_idx
    steps,              \* iterations of the loop of VM.run so far
    phase               \* emit, built, linked, printed, run; failed, crashed

vars == <<prog, ip, uregs, registers, bytecode, start_bytecode, functions,
          jump_marker, func_counter, start_jump_marker, final, line, output,
          instructions, memory, current_idx, steps, phase>>

asmVars == <<registers, bytecode, functions, jump_marker>>
buildVars == <<start_bytecode, final, line, output>>
vmVars == <<instructions, memory, current_idx, steps>>

\* GenericScript.__init__ without a parent (lines 193-198) and
\* Script.__init__ (lines 437-445).
Script_init ==
    LET E0 == Asm([i \in Slots |-> "None"], (0 :> <<>>), 0, <<>>)
        E1 == Register_init(E0, "Static", 0, ZERO)
        E2 == Register_init(E1, "Static", 0, ONE)
        E3 == StackPointer_init(E2, 0, FrpBase, None)
        E4 == JumpMarker_init(E3)
        E5 == GenericScript_jump(E4, 0, E4.ret)
    IN  [E |-> [E5 EXCEPT !.bytecode[0] = <<MarkerEntry(E4.ret.v), LogInstruction>>],
         start_bytecode |-> E5.bytecode[0],
         start_jump_marker |-> E4.ret.v]

InitWith(programs) ==
    /\ prog \in programs
    /\ ip = 1
    /\ uregs = <<>>
    /\ registers = Script_init.E.registers
    /\ bytecode = Script_init.E.bytecode
    /\ start_bytecode = Script_init.start_bytecode
    /\ functions = <<>>
    /\ jump_marker = Script_init.E.jump_marker
    /\ func_counter = 0
    /\ start_jump_marker = (0 :> Script_init.start_jump_marker)
    /\ final = <<>>
    /\ line = <<>>
    /\ output = <<>>
    /\ instructions = <<>>
    /\ memory = Memory_init
    /\ current_idx = 0
    /\ steps = 0
    /\ phase = "emit"

Cur == Asm(registers, bytecode, jump_marker, functions)

\* An argument of the text, as the object it denotes in script e.
Resolve(arg, e) ==
    CASE arg.t = "num" -> Num(arg.v)
      [] arg.t = "var" -> uregs[arg.v]
      [] arg.t = "zero" -> zero
      [] arg.t = "one" -> one
      [] arg.t = "frp" -> function_return_pointer(e)
      [] arg.t = "fn" -> Fn(arg.v, start_jump_marker[arg.v])
      [] arg.t = "entry" -> Marker(start_jump_marker[arg.v])

Emitting(ops) == phase = "emit" /\ ip <= Len(prog) /\ prog[ip].op \in ops

\* The emitter state after a call: an exception ends the assembly.
Commit(E) ==
    /\ registers' = E.registers
    /\ bytecode' = E.bytecode
    /\ jump_marker' = E.jump_marker
    /\ functions' = E.functions
    /\ phase' = IF E.err THEN "failed" ELSE "emit"
    /\ ip' = ip + 1
    /\ UNCHANGED <<prog, start_bytecode, final, line, output, vmVars>>

Category(op) ==
    CASE op = "VariableRegister" -> "Variable"
      [] op = "GlobalRegister" -> "Global"
      [] op = "SystemRegister" -> "System"

\* script.VariableRegister() / GlobalRegister() / SystemRegister()
NewRegister ==
    /\ Emitting({"VariableRegister", "GlobalRegister", "SystemRegister"})
    /\ LET c == prog[ip]
           E == Register_init(Cur, Category(c.op), c.e, None)
       IN  /\ Commit(E)
           /\ uregs' = IF E.err THEN uregs ELSE Append(uregs, E.ret)
    /\ UNCHANGED <<func_counter, start_jump_marker>>

\* StackPointer(script, mem_start)
NewStackPointer ==
    /\ Emitting({"StackPointer"})
    /\ LET c == prog[ip]
           E == StackPointer_init(Cur, c.e, c.a[1].v, None)
       IN  /\ Commit(E)
           /\ uregs' = IF E.err THEN uregs ELSE Append(uregs, E.ret)
    /\ UNCHANGED <<func_counter, start_jump_marker>>

\* register.free()
Free ==
    /\ Emitting({"free"})
    /\ LET c == prog[ip] IN Commit(Register_free(Cur, Resolve(c.a[1], c.e)))
    /\ UNCHANGED <<uregs, func_counter, start_jump_marker>>

\* register.set(value)
Set ==
    /\ Emitting({"set"})
    /\ LET c == prog[ip]
       IN  Commit(Register_set(Cur, Resolve(c.a[1], c.e), Resolve(c.a[2], c.e)))
    /\ UNCHANGED <<uregs, func_counter, start_jump_marker>>

\* script.add(output, in1, in2)
Add ==
    /\ Emitting({"add"})
    /\ LET c == prog[ip]
       IN  Commit(GenericScript_add(Cur, c.e, Resolve(c.a[1], c.e),
                      Resolve(c.a[2], c.e), Resolve(c.a[3], c.e)))
    /\ UNCHANGED <<uregs, func_counter, start_jump_marker>>

\* script.sub(output, in1, in2)
Sub ==
    /\ Emitting({"sub"})
    /\ LET c == prog[ip]
       IN  Commit(GenericScript_sub(Cur, c.e, Resolve(c.a[1], c.e),
                      Resolve(c.a[2], c.e), Resolve(c.a[3], c.e)))
    /\ UNCHANGED <<uregs, func_counter, start_jump_marker>>

\* pointer.push(value)
Push ==
    /\ Emitting({"push"})
    /\ LET c == prog[ip]
       IN  Commit(StackPointer_push(Cur, Resolve(c.a[1], c.e), Resolve(c.a[2], c.e)))
    /\ UNCHANGED <<uregs, func_counter, start_jump_marker>>

\* pointer.pop(variable)
Pop ==
    /\ Emitting({"pop"})
    /\ LET c == prog[ip]
       IN  Commit(StackPointer_pop(Cur, Resolve(c.a[1], c.e), Resolve(c.a[2], c.e)))
    /\ UNCHANGED <<uregs, func_counter, start_jump_marker>>

\* script.call(function)
DoCall ==
    /\ Emitting({"call"})
    /\ LET c == prog[ip]
       IN  Commit(GenericScript_call(Cur, c.e, Resolve(c.a[1], c.e)))
    /\ UNCHANGED <<uregs, func_counter, start_jump_marker>>

\* script.add_if(compare, var1, var2, function)
AddIf ==
    /\ Emitting({"add_if"})
    /\ LET c == prog[ip]
       IN  Commit(GenericScript_add_if(Cur, c.e, Resolve(c.a[1], c.e),
                      Resolve(c.a[2], c.e), Resolve(c.a[3], c.e),
                      Resolve(c.a[4], c.e)))
    /\ UNCHANGED <<uregs, func_counter, start_jump_marker>>

\* script.jump(loc)
Jump ==
    /\ Emitting({"jump"})
    /\ LET c == prog[ip]
       IN  Commit(GenericScript_jump(Cur, c.e, Resolve(c.a[1], c.e)))
    /\ UNCHANGED <<uregs, func_counter, start_jump_marker>>

\* script.move(ldir, rdir, lspeed, rspeed)
Move ==
    /\ Emitting({"move"})
    /\ LET c == prog[ip]
       IN  Commit(GenericScript_move(Cur, c.e, Resolve(c.a[1], c.e),
                      Resolve(c.a[2], c.e), Resolve(c.a[3], c.e),
                      Resolve(c.a[4], c.e)))
    /\ UNCHANGED <<uregs, func_counter, start_jump_marker>>

\* Function(script)
NewFunction ==
    /\ Emitting({"Function"})
    /\ LET E == Function_init(Cur, func_counter + 1)
       IN  /\ Commit(E)
           /\ start_jump_marker' = start_jump_marker @@ ((func_counter + 1) :> E.ret.s)
    /\ func_counter' = func_counter + 1
    /\ UNCHANGED uregs

\* function.end()
End ==
    /\ Emitting({"end"})
    /\ Commit(Function_end(Cur, prog[ip].e))
    /\ UNCHANGED <<uregs, func_counter, start_jump_marker>>

\* build = script.build()   (compiler.py line 533)
Build ==
    /\ phase = "emit" /\ ip > Len(prog)
    /\ LET stream == Script_stream(start_bytecode, functions, bytecode)
       IN  /\ bytecode' = [bytecode EXCEPT ![0] = stream]
           /\ final' = GenericScript_build(stream)
           /\ line' = [m \in 1 .. jump_marker |-> marker_line(stream, m)]
    /\ phase' = "built"
    /\ UNCHANGED <<prog, ip, uregs, registers, start_bytecode, functions,
                   jump_marker, func_counter, start_jump_marker, output, vmVars>>

\* build = script.link(build)   (compiler.py line 534)
Link ==
    /\ phase = "built"
    /\ IF link_raises(final)
       THEN phase' = "failed" /\ final' = final
       ELSE phase' = "linked" /\ final' = Script_link(final, line)
    /\ UNCHANGED <<prog, ip, uregs, asmVars, start_bytecode, func_counter,
                   start_jump_marker, line, output, vmVars>>

\* print(script.construct(build))   (compiler.py line 539)
Construct ==
    /\ phase = "linked"
    /\ IF construct_raises(final)
       THEN phase' = "failed" /\ output' = output
       ELSE phase' = "printed" /\ output' = Script_construct(final) \o <<"\n">>
    /\ UNCHANGED <<prog, ip, uregs, asmVars, start_bytecode, func_counter,
                   start_jump_marker, final, line, vmVars>>

\* vm.py lines 171-175: read stdin, filter, parse, VM(instructions).  When
\* parse raises, no VM is constructed.
Load ==
    /\ phase = "printed"
    /\ LET parsed == StringParser_parse(input_filter(output), 1)
       IN  /\ phase' = IF parsed.ok THEN "run" ELSE "crashed"
           /\ instructions' = IF parsed.ok THEN parsed.instructions ELSE <<>>
    /\ memory' = Memory_init
    /\ current_idx' = 0
    /\ steps' = 0
    /\ UNCHANGED <<prog, ip, uregs, asmVars, start_bytecode, func_counter,
                   start_jump_marker, final, line, output>>

\* One iteration of "while self.current_idx < len(self.instructions)"; the
\* model follows a run for MaxSteps iterations.
Run ==
    /\ phase = "run"
    /\ current_idx < Len(instructions)
    /\ steps < MaxSteps
    /\ steps' = steps + 1
    /\ LET vm == VM_run([memory |-> memory, current_idx |-> current_idx,
                         err |-> FALSE], instructions)
       IN  /\ memory' = vm.memory
           /\ current_idx' = vm.current_idx
           /\ phase' = IF vm.err THEN "crashed" ELSE "run"
    /\ UNCHANGED <<prog, ip, uregs, asmVars, start_bytecode, func_counter,
                   start_jump_marker, final, line, output, instructions>>

\* The loop of VM.run has ended: the VM halted normally.
Halted == phase = "run" /\ ~(current_idx < Len(instructions))

(***************************************************************************)
(* The program texts the specifications draw from.                         *)
(***************************************************************************)
SeqsUpTo(S, n) == UNION {[1 .. k -> S] : k \in 0 .. n}

RECURSIVE Bodies(_, _, _, _)
\* Functions i .. n of a call chain, innermost first: function n adds d to
\* register U(1); function i < n calls function i + 1 and then adds 1.
Bodies(i, n, d, after) ==
    IF i > n THEN <<>>
    ELSE Bodies(i + 1, n, d, after) \o
         (IF i = n THEN <<Call("add", i, <<U(1), U(1), N(d)>>)>>
          ELSE <<Call("call", i, <<F(i + 1)>>)>> \o
               (IF after THEN <<Call("add", i, <<U(1), U(1), N(1)>>)>> ELSE <<>>))
         \o <<Call("end", i, <<>>)>>

\* g = script.GlobalRegister(); n functions, each calling the next; main
\* sets g to c and calls the first; `after`: an add follows every call.
CallText(c, d, n, after) ==
    <<Call("GlobalRegister", 0, <<>>)>> \o
    [i \in 1 .. n |-> Call("Function", 0, <<>>)] \o
    Bodies(1, n, d, after) \o
    <<Call("set", 0, <<U(1), N(c)>>), Call("call", 0, <<F(1)>>)>> \o
    (IF after THEN <<Call("add", 0, <<U(1), U(1), N(1)>>)>> ELSE <<>>)

CallConsts == (0 .. MaxConst) \cup {50}
CallIncrements == (1 .. MaxConst) \cup {10}

CallPrograms ==
    {CallText(c, d, n, after) :
        c \in CallConsts, d \in CallIncrements, n \in 1 .. MaxDepth,
        after \in BOOLEAN}

\* Two Variable registers set to a and b, a Global register g and a
\* function adding d to g, called if the two registers are equal; main
\* then adds 100 to g.
IfText(a, b, d) ==
    <<Call("VariableRegister", 0, <<>>), Call("VariableRegister", 0, <<>>),
      Call("GlobalRegister", 0, <<>>), Call("Function", 0, <<>>),
      Call("add", 1, <<U(3), U(3), N(d)>>), Call("end", 1, <<>>),
      Call("set", 0, <<U(1), N(a)>>), Call("set", 0, <<U(2), N(b)>>),
      Call("add_if", 0, <<N(Compare_EQUAL), U(1), U(2), F(1)>>),
      Call("add", 0, <<U(3), U(3), N(100)>>)>>

IfPrograms ==
    {IfText(a, b, d) : a \in 0 .. MaxConst, b \in 0 .. MaxConst,
                       d \in 1 .. (MaxConst + 1)}

\* A stack pointer with base b, a destination register and push(v); pop(dest)
\* with v a literal k, the entry marker of a function, or a Global register
\* holding k.
PushPopText(b, kind, k) ==
    <<Call("StackPointer", 0, <<N(b)>>), Call("VariableRegister", 0, <<>>)>> \o
    (CASE kind = "literal" ->
            <<Call("push", 0, <<U(1), N(k)>>)>>
       [] kind = "marker" ->
            <<Call("Function", 0, <<>>), Call("end", 1, <<>>),
              Call("push", 0, <<U(1), Entry(1)>>)>>
       [] kind = "register" ->
            <<Call("GlobalRegister", 0, <<>>), Call("set", 0, <<U(3), N(k)>>),
              Call("push", 0, <<U(1), U(3)>>)>>) \o
    <<Call("pop", 0, <<U(1), U(2)>>)>>

StackBases == (0 .. MaxConst) \cup {FrpBase}
PushKinds == {"literal", "marker", "register"}

PushPopPrograms ==
    {PushPopText(b, kind, k) :
        b \in StackBases, kind \in PushKinds, k \in (0 .. MaxConst) \cup {7}}

\* A constant that does not fit the 8-bit field.
OverflowPrograms ==
    {<<Call("GlobalRegister", 0, <<>>), Call("add", 0, <<U(1), Z, N(k)>>),
       Call("add", 0, <<U(1), U(1), N(1)>>)>> : k \in {255, 256, 300}}

\* Short texts: a Variable register v = U(1), a Global register g = U(2)
\* and a finished function adding 1 to g, then up to MaxOps calls on main.
Setup ==
    <<Call("VariableRegister", 0, <<>>), Call("GlobalRegister", 0, <<>>),
      Call("Function", 0, <<>>), Call("add", 1, <<U(2), U(2), N(1)>>),
      Call("end", 1, <<>>)>>

Calls ==
    {Call("add", 0, <<U(2), U(2), U(1)>>),
     Call("add", 0, <<U(1), U(1), U(2)>>),
     Call("sub", 0, <<U(2), U(2), U(1)>>),
     Call("sub", 0, <<U(1), Z, N(1)>>),
     Call("set", 0, <<U(1), N(5)>>),
     Call("push", 0, <<FRP, U(1)>>),
     Call("pop", 0, <<FRP, U(1)>>),
     Call("call", 0, <<F(1)>>),
     Call("add_if", 0, <<N(Compare_EQUAL), U(1), U(2), F(1)>>),
     Call("jump", 0, <<U(1)>>),
     Call("move", 0, <<N(1), N(0), N(3), N(4)>>),
     Call("move", 0, <<N(1), U(1), N(3), N(4)>>),
     Call("free", 0, <<U(1)>>),
     Call("SystemRegister", 0, <<>>)}

ShortPrograms == {Setup \o body : body \in SeqsUpTo(Calls, MaxOps)}

\* Two Variable registers v1 = U(1), v2 = U(2) and one call of move whose
\* arguments are constants or these registers.
MoveArgs == {N(1), N(3), U(1), U(2)}

MovePrograms ==
    {<<Call("VariableRegister", 0, <<>>), Call("VariableRegister", 0, <<>>),
       Call("move", 0, <<a, b, N(3), c>>)>> :
        a \in MoveArgs, b \in MoveArgs, c \in MoveArgs}

\* A function that is called (directly or by add_if) but never ended: its
\* body is not in Script.functions.
UnendedPrograms ==
    {<<Call("GlobalRegister", 0, <<>>), Call("Function", 0, <<>>),
       Call("add", 1, <<U(1), U(1), N(d)>>)>> \o tail :
        d \in 1 .. MaxConst,
        tail \in {<<Call("call", 0, <<F(1)>>)>>,
                  <<Call("add_if", 0, <<N(Compare_EQUAL), U(1), Z, F(1)>>)>>,
                  <<Call("end", 1, <<>>), Call("call", 0, <<F(1)>>)>>}}

\* Emitter calls whose destination is a constant register.
StaticPrograms ==
    {<<Call("VariableRegister", 0, <<>>), Call("StackPointer", 0, <<N(0)>>), c>> :
        c \in {Call("set", 0, <<Z, N(5)>>), Call("set", 0, <<O, N(5)>>),
               Call("add", 0, <<Z, Z, N(5)>>), Call("add", 0, <<O, U(1), U(1)>>),
               Call("sub", 0, <<O, O, N(1)>>), Call("pop", 0, <<U(2), Z>>),
               Call("add", 0, <<U(1), Z, O>>)}}

Programs ==
    CallPrograms \cup IfPrograms \cup PushPopPrograms \cup OverflowPrograms
    \cup ShortPrograms \cup MovePrograms \cup UnendedPrograms \cup StaticPrograms

Init == InitWith(Programs)

Next ==
    \/ NewRegister
    \/ NewStackPointer
    \/ Free
    \/ Set
    \/ Add
    \/ Sub
    \/ Push
    \/ Pop
    \/ DoCall
    \/ AddIf
    \/ Jump
    \/ Move
    \/ NewFunction
    \/ End
    \/ Build
    \/ Link
    \/ Construct
    \/ Load
    \/ Run

Spec == Init /\ [][Next]_vars

(***************************************************************************)
(* The allocator alone: texts of allocate and release calls.               *)
(***************************************************************************)
AllocCalls ==
    {Call(op, 0, <<>>) : op \in {"VariableRegister", "GlobalRegister", "SystemRegister"}}
    \cup {Call("free", 0, <<U(i)>>) : i \in 1 .. (MaxAllocOps - 1)}

isAlloc(c) == c.op \in {"VariableRegister", "GlobalRegister", "SystemRegister"}

\* The number of register objects the first n calls of a text create.
Created(text, n) == Cardinality({j \in 1 .. n : isAlloc(text[j])})

\* A text only frees a register object it has created.
WellFormed(text) ==
    \A i \in 1 .. Len(text) :
        text[i].op = "free" => text[i].a[1].v <= Created(text, i - 1)

AllocPrograms == {text \in SeqsUpTo(AllocCalls, MaxAllocOps) : WellFormed(text)}

InitAlloc == InitWith(AllocPrograms)

NextAlloc ==
    \/ NewRegister
    \/ Free

SpecAlloc == InitAlloc /\ [][NextAlloc]_vars

(***************************************************************************)
(* Helpers of the properties.                                              *)
(***************************************************************************)
isInstruction(x) == x.k = "Instruction"

\* The real instructions of a stream, in order: address a is element a + 1.
Reals(stream) == SelectSeq(stream, isInstruction)

\* A step of VM.run that executes the instruction at the program counter.
RunStep == phase = "run" /\ steps' = steps + 1

\* The instruction VM.run is about to execute.
Current == fetch(instructions, current_idx)

Range(f) == {f[i] : i \in DOMAIN f}

(***************************************************************************)
(* Call and return.                                                        *)
(***************************************************************************)
\* The address of the last real instruction of finished function k: the
\* jump of its epilogue when nothing was emitted into it after end().
EpilogueAddr(k) == line[start_jump_marker[k]] + Len(Reals(bytecode[k])) - 1

\* The addresses of the immediate jumps to the entry marker of function k.
CallSites(k) ==
    {b \in 0 .. (Len(Reals(bytecode[0])) - 1) :
        Reals(bytecode[0])[b + 1].f =
            <<Num(CONTROL), Num(Control_JUMP_I), Marker(start_jump_marker[k])>>}

\* C1: in a call scenario (main calls function 1, function i calls function
\* i + 1), the step that executes the jump of a function's epilogue sets the
\* program counter to the address following the jump of the call that
\* entered the function, at every nesting depth.
C1_ReturnResumesAfterCall ==
    [][\A k \in 1 .. func_counter :
          (/\ RunStep
           /\ prog \in CallPrograms
           /\ current_idx = EpilogueAddr(k))
          => \A b \in CallSites(k) : current_idx' = b + 1]_vars

(***************************************************************************)
(* Conditional call.                                                       *)
(***************************************************************************)
\* C2: in the conditional-call scenario IfText(a, b, d) (g starts at 0, the
\* guarded function adds d to g, main adds 100 after the conditional call),
\* a halted VM has run the function exactly once when a = b (g = d + 100)
\* and not at all when a # b (g = 100).
C2_ConditionalCall ==
    \A a \in 0 .. MaxConst, b \in 0 .. MaxConst, d \in 1 .. (MaxConst + 1) :
        (prog = IfText(a, b, d) /\ Halted)
        => memory[uregs[3].v] = (IF a = b THEN d ELSE 0) + 100

\* The VM is about to execute jump-if-not-true(register, location).
AtJumpNotTrue ==
    /\ Len(Current) = 5
    /\ Current[2] = CONTROL
    /\ Current[3] = Control_JUMP_NOT_TRUE
    /\ valid(Current[4])

\* C3: a step executing jump-if-not-true(conditionSlot, address) sets the
\* program counter to address if memory[conditionSlot] is 0 and to pc + 1
\* otherwise, and leaves memory unchanged.
C3_JumpNotTrueStep ==
    [][(RunStep /\ AtJumpNotTrue)
       => /\ current_idx' = IF memory[at(Current[4])] = 0
                            THEN Current[5] ELSE current_idx + 1
          /\ memory' = memory]_vars

\* C4: the call scenario CallText(c, d, 1, FALSE) (g = c, then a call of a
\* function adding d to g) halts with g = c + d and the return-address
\* stack pointer back at the value the prologue gave it before the call.
C4_CallScenario ==
    \A c \in CallConsts, d \in CallIncrements :
        (prog = CallText(c, d, 1, FALSE) /\ Halted)
        => /\ memory[uregs[1].v] = c + d
           /\ memory[function_return_pointer(0).v] = FrpBase

\* The scenario of the spec has run: 50 + 10 = 60.
C4_Witness ==
    /\ prog = CallText(50, 10, 1, FALSE)
    /\ Halted
    /\ memory[uregs[1].v] = 60

(***************************************************************************)
(* The stack.                                                              *)
(***************************************************************************)
\* C5: after push(v); pop(dest) on a stack pointer with base b the pointer
\* holds b again and dest holds the pushed value: the literal k, the
\* resolved address of the marker, or the content k of register v.
C5_PushPopRoundTrip ==
    \A b \in StackBases, kind \in PushKinds, k \in (0 .. MaxConst) \cup {7} :
        (prog = PushPopText(b, kind, k) /\ Halted)
        => /\ memory[uregs[1].v] = b
           /\ memory[uregs[2].v] =
                 (CASE kind = "literal" -> k
                    [] kind = "marker" -> line[start_jump_marker[1]]
                    [] kind = "register" -> k)

(***************************************************************************)
(* Encoding and decoding.                                                  *)
(***************************************************************************)
\* The field lists of the linked real instructions, in order.
LinkedFields == [i \in 1 .. Len(Reals(final)) |-> Reals(final)[i].f]

\* C6: once the VM has loaded the printed bit string, the instructions it
\* decoded are exactly the linked field lists, in order.
C6_RoundTrip ==
    (phase \in {"run", "crashed"}) => instructions = LinkedFields

(***************************************************************************)
(* Addresses and markers.                                                  *)
(***************************************************************************)
\* The positions of a stream where marker m is placed.
Placements(stream, m) ==
    {p \in 1 .. Len(stream) : stream[p] = MarkerEntry(m)}

\* The number of real instructions of a stream before position p.
RealsBefore(stream, p) == Len(Reals(SubSeq(stream, 1, p - 1)))

\* The positions after p that hold a real instruction.
RealsAfter(stream, p) ==
    {q \in (p + 1) .. Len(stream) : isInstruction(stream[q])}

\* What build must make of the prologue, the registered function bodies
\* (in registration order) and the main body: the real instructions get
\* 0, 1, 2, ... in that order, and a marker gets the number of real
\* instructions before its placement, which is the address of the first
\* real instruction after it when there is one.
AddressesAssigned(prologue, fs, code, built, lines) ==
    LET stream == prologue \o Flatten(fs, code) \o code[0]
    IN  /\ Len(Reals(built)) = Len(Reals(stream))
        /\ \A i \in 1 .. Len(Reals(built)) :
              /\ Reals(built)[i].f = Reals(stream)[i].f
              /\ Reals(built)[i].line = i - 1
        /\ \A m \in 1 .. jump_marker :
              \A p \in Placements(stream, m) :
                 /\ lines[m] = RealsBefore(stream, p)
                 /\ \A q \in RealsAfter(stream, p) :
                       (\A r \in RealsAfter(stream, p) : q <= r)
                       => built[q].line = lines[m]

\* What link must make of an instruction that references a marker placed in
\* the stream: the operand becomes the address of the placement.
MarkersResolved(stream, built, linked) ==
    \A i \in 1 .. Len(built) :
        isInstruction(built[i]) =>
            \A j \in 1 .. Len(built[i].f) :
                (built[i].f[j].t = "Marker") =>
                    \A p \in Placements(stream, built[i].f[j].v) :
                        linked[i].f[j + 1] = RealsBefore(stream, p)

\* C7: build numbers the real instructions of prologue, function bodies (in
\* registration order) and main body 0, 1, 2, ...; markers and log entries
\* take no address; link resolves every placed marker to the address of
\* the first real instruction after its placement.
C7_Addresses ==
    [][/\ (phase = "emit" /\ phase' = "built")
          => AddressesAssigned(start_bytecode, functions, bytecode, final', line')
       /\ (phase = "built" /\ phase' = "linked")
          => MarkersResolved(bytecode[0], final, final')]_vars

\* A linked program with two function bodies before main, whose prologue
\* jump (a reference to main's marker that precedes its placement) was
\* resolved.
C7_Witness ==
    /\ phase = "linked"
    /\ Len(functions) = 2
    /\ line[start_jump_marker[0]] > line[start_jump_marker[2]]
    /\ \E i \in 1 .. Len(final) :
          /\ isInstruction(final[i])
          /\ final[i].line < line[start_jump_marker[0]]
          /\ final[i].f = <<3, CONTROL, Control_JUMP_I, line[start_jump_marker[0]]>>

(***************************************************************************)
(* add and sub.                                                            *)
(***************************************************************************)
\* C8: every add or sub instruction an emitter holds has the
\* register-register opcode when its last operand is a register (of any
\* category) and the immediate opcode only when it is a number.
C8_VariantSelection ==
    \A e \in DOMAIN bytecode :
        \A i \in 1 .. Len(bytecode[e]) :
            (isInstruction(bytecode[e][i]) /\ bytecode[e][i].f[1] = Num(MATH))
            => LET f == bytecode[e][i].f
               IN  /\ isRegister(f[5]) => f[2].v \in {Math_ADD, Math_SUB}
                   /\ f[2].v \in {Math_ADD_I, Math_SUB_I} => f[5].t = "Num"

(***************************************************************************)
(* The VM's store.                                                         *)
(***************************************************************************)
\* The VM is about to execute store(addrSlot, value) on indexes of the array.
AtStore ==
    /\ Len(Current) = 5
    /\ Current[2] = MEMORY
    /\ Current[3] = Memory_STORE
    /\ valid(Current[4])
    /\ valid(memory[at(Current[4])])

AllocStep == phase = "emit" /\ ip <= Len(prog) /\ isAlloc(prog[ip]) /\ phase' = "emit"

\* The register object the step created.
Allocated == uregs'[Len(uregs')]

\* The call at ip ends a run of allocations of one category, the release of
\* the first register of the run, and one more allocation of the category:
\* n is the position of the first allocation of the run.
ReuseRun(n) ==
    /\ n < ip - 1
    /\ prog[ip - 1] = Call("free", 0, <<U(Created(prog, n))>>)
    /\ \A j \in n .. (ip - 2) : prog[j] = prog[ip]

\* C10: an allocation returns a slot that was free, the lowest free one at
\* or above the start of its category; after N allocations of a category
\* and the release of the first, the next allocation of that category
\* returns the released slot.
C10_Allocation ==
    [][AllocStep
       => /\ registers[Allocated.v] = "None"
          /\ Allocated.v >= start(Allocated.c)
          /\ \A i \in start(Allocated.c) .. (Allocated.v - 1) : registers[i] # "None"
          /\ \A n \in 1 .. ip :
                ReuseRun(n) => Allocated.v = uregs[Created(prog, n)].v]_vars

\* Two Variable registers were allocated, the first released, and a third
\* allocation got the slot of the first.
C10_Witness ==
    /\ ip = 5
    /\ SubSeq(prog, 1, 4) =
          <<Call("VariableRegister", 0, <<>>), Call("VariableRegister", 0, <<>>),
            Call("free", 0, <<U(1)>>), Call("VariableRegister", 0, <<>>)>>
    /\ Len(uregs) = 3
    /\ uregs[3].v = uregs[1].v
    /\ uregs[2].v # uregs[1].v

(***************************************************************************)
(* move.                                                                   *)
(***************************************************************************)
\* The call at ip is a call of move, and the step executes it.
MoveStep == Emitting({"move"}) /\ ip' = ip + 1

\* The four arguments of the call at ip, as objects.
MoveOperands == [j \in 1 .. 4 |-> Resolve(prog[ip].a[j], prog[ip].e)]

\* The last entry of the bytecode list the call at ip works on, after the step.
Emitted == bytecode'[prog[ip].e][Len(bytecode'[prog[ip].e])]

\* C11: move with four numeric constants appends exactly one instruction,
\* whose opcode the VM dispatches to move_immediate and whose operands are
\* the four constants in order; move with a Variable register argument ends
\* with one instruction whose opcode the VM dispatches to move.
C11_MoveOpcode ==
    [][MoveStep
       => IF \A j \in 1 .. 4 : MoveOperands[j].t = "Num"
          THEN /\ Len(bytecode'[prog[ip].e]) = Len(bytecode[prog[ip].e]) + 1
               /\ Emitted.f[1] = Num(MOVE)
               /\ instruction_map(MOVE, Emitted.f[2].v) = "move_immediate"
               /\ SubSeq(Emitted.f, 3, 6) = MoveOperands
          ELSE /\ isInstruction(Emitted)
               /\ Emitted.f[1] = Num(MOVE)
               /\ instruction_map(MOVE, Emitted.f[2].v) = "move"]_vars

(***************************************************************************)
(* The VM alone, on any bit stream: the complete encodings of up to        *)
(* MaxGroups instructions and every prefix of them, a newline at the end.  *)
(***************************************************************************)
MaxGroups == 2

\* Linked instructions: add_immediate, jump_immediate and store.
Groups ==
    {<<5, MATH, Math_ADD_I, GlobalStart, ZERO, 1>>,
     <<3, CONTROL, Control_JUMP_I, 2>>,
     <<4, MEMORY, Memory_STORE, StackPointerStart, 7>>}

RECURSIVE Encode(_)
\* The bit string of a list of linked instructions.
Encode(groups) ==
    IF groups = <<>> THEN <<>>
    ELSE join_fields(Head(groups)) \o Encode(Tail(groups))

Streams ==
    UNION {{SubSeq(Encode(gs), 1, n) \o <<"\n">> : n \in 0 .. Len(Encode(gs))} :
              gs \in SeqsUpTo(Groups, MaxGroups)}

InitLoad ==
    /\ prog = <<>>
    /\ ip = 1
    /\ uregs = <<>>
    /\ registers = Script_init.E.registers
    /\ bytecode = Script_init.E.bytecode
    /\ start_bytecode = Script_init.start_bytecode
    /\ functions = <<>>
    /\ jump_marker = Script_init.E.jump_marker
    /\ func_counter = 0
    /\ start_jump_marker = (0 :> Script_init.start_jump_marker)
    /\ final = <<>>
    /\ line = <<>>
    /\ output \in Streams
    /\ instructions = <<>>
    /\ memory = Memory_init
    /\ current_idx = 0
    /\ steps = 0
    /\ phase = "printed"

NextLoad ==
    \/ Load
    \/ Run

SpecLoad == InitLoad /\ [][NextLoad]_vars

(***************************************************************************)
(* Truncated input.                                                        *)
(***************************************************************************)
RECURSIVE Truncated(_, _)
\* From position pos on, the bit string ends inside a group: fewer than 8
\* bits are left for a length prefix (the empty string included), or fewer
\* than 8 bits for each of the fields the prefix declares.
Truncated(str, pos) ==
    LET left == Len(str) - pos + 1
        need == 8 + 8 * int2(str, pos, pos + 7)
    IN  IF left < 8 THEN TRUE
        ELSE IF left < need THEN TRUE
        ELSE IF left = need THEN FALSE
        ELSE Truncated(str, pos + need)

\* C12: when the bit stream ends inside a group, the VM executes no
\* instruction of it: memory keeps its initial contents.
C12_TruncatedInput ==
    Truncated(input_filter(output), 1) => memory = Memory_init

(***************************************************************************)
(* Unresolved markers.                                                     *)
(***************************************************************************)
\* Some instruction of the built list references a jump marker that is
\* placed nowhere in the stream build walked.
ReferencesUnplaced ==
    \E i \in 1 .. Len(final) :
        /\ isInstruction(final[i])
        /\ \E j \in 1 .. Len(final[i].f) :
              /\ final[i].f[j].t = "Marker"
              /\ Placements(bytecode[0], final[i].f[j].v) = {}

\* C13: linking a built program that references a marker placed nowhere
\* fails: it does not produce a linked program.
C13_UnresolvedMarker ==
    [][(phase = "built" /\ ReferencesUnplaced) => phase' # "linked"]_vars

(***************************************************************************)
(* Field overflow.                                                         *)
(***************************************************************************)
\* Some field of a real instruction of the linked program exceeds 255.
Overflows ==
    \E i \in 1 .. Len(final) :
        /\ isInstruction(final[i])
        /\ \E j \in 1 .. Len(final[i].f) : final[i].f[j] > 255

\* C14: construct of a linked program with a field above 255 fails and
\* produces no bit string.
C14_FieldOverflow ==
    [][(phase = "linked" /\ Overflows)
       => (phase' # "printed" /\ output' = output)]_vars

(***************************************************************************)
(* Constant registers.                                                     *)
(***************************************************************************)
isStatic(x) == isRegister(x) /\ x.c = "Static"

\* C15: no emitter holds an instruction whose destination is a constant
\* register: the output of an add or sub, or the destination of a load.
C15_ConstantsImmutable ==
    \A e \in DOMAIN bytecode :
        \A i \in 1 .. Len(bytecode[e]) :
            isInstruction(bytecode[e][i])
            => LET f == bytecode[e][i].f
               IN  /\ f[1] = Num(MATH) => ~isStatic(f[3])
                   /\ (f[1] = Num(MEMORY) /\ f[2] = Num(Memory_LOAD)) => ~isStatic(f[4])

(***************************************************************************)
(* Instruction counts.                                                     *)
(***************************************************************************)
\* C16: once the VM has decoded the printed bit string, the number of real
\* instructions of the built stream, the number of lines of the annotated
\* output without comments and the number of decoded groups are equal, and
\* the length prefix of every group is 2 + its number of operands.
C16_CountAgreement ==
    (phase \in {"run", "crashed"})
    => /\ Len(Script_string(final, FALSE)) = Len(Reals(final))
       /\ Len(instructions) = Len(Reals(final))
       /\ \A g \in 1 .. Len(instructions) :
             instructions[g][1] = 2 + (Len(instructions[g]) - 3)

(***************************************************************************)
(* Termination of the VM.                                                  *)
(***************************************************************************)
\* The text uses only add, sub, set, push, pop, call, add_if, move and
\* function end besides constructors and free (no function of the texts
\* calls itself).
NoExplicitJump == \A i \in 1 .. Len(prog) : prog[i].op # "jump"

\* C17: the VM run of such a program ends.  The VM is deterministic: a step
\* that goes on running with the program counter and the memory it started
\* from is repeated forever, so a run that ends has no such step.
C17_Terminates ==
    [][(RunStep /\ NoExplicitJump /\ phase' = "run")
       => <<current_idx', memory'>> # <<current_idx, memory>>]_vars

(***************************************************************************)
(* Temporary registers.                                                    *)
(***************************************************************************)
\* The call at ip is one of the operations that allocate temporaries, and
\* the step executes it and returns normally.
TemporariesStep ==
    /\ Emitting({"move", "push", "pop", "add_if", "call", "end"})
    /\ ip' = ip + 1
    /\ phase' = "emit"

\* C18: every slot that is free before move, push, pop, add_if, call or
\* function end is free again when the operation returns.
C18_NoTemporaryLeaks ==
    [][TemporariesStep
       => \A i \in Slots : registers[i] = "None" => registers'[i] = "None"]_vars

(***************************************************************************)
(* The allocator on a table whose Global range is nearly full: the state   *)
(* after p calls of script.GlobalRegister(), p just below the size of the  *)
(* range, followed by the texts of allocations and releases.               *)
(***************************************************************************)
\* One more script.GlobalRegister() on a state of Prefill.
\* The emitter state and the register objects after p allocations of a
\* Global register by a new script: every search starts at GlobalStart and
\* takes the first free slot, so the p registers hold the first p slots of
\* the range.
Prefill(p) ==
    [E |-> [Script_init.E EXCEPT !.registers =
                [i \in Slots |->
                    IF i \in GlobalStart .. (GlobalStart + p - 1) THEN "Global"
                    ELSE Script_init.E.registers[i]]],
     uregs |-> [k \in 1 .. p |-> Reg("Global", GlobalStart + k - 1, 0)]]

\* The Global range is full but for one or two slots.
Prefills == {SystemStart - GlobalStart - 2, SystemStart - GlobalStart - 1}

InitRange ==
    /\ \E filled \in {Prefill(p) : p \in Prefills} :
          /\ uregs = filled.uregs
          /\ registers = filled.E.registers
    /\ prog \in SeqsUpTo(AllocCalls, MaxAllocOps)
    /\ ip = 1
    /\ bytecode = Script_init.E.bytecode
    /\ start_bytecode = Script_init.start_bytecode
    /\ functions = <<>>
    /\ jump_marker = Script_init.E.jump_marker
    /\ func_counter = 0
    /\ start_jump_marker = (0 :> Script_init.start_jump_marker)
    /\ final = <<>>
    /\ line = <<>>
    /\ output = <<>>
    /\ instructions = <<>>
    /\ memory = Memory_init
    /\ current_idx = 0
    /\ steps = 0
    /\ phase = "emit"

SpecRange == InitRange /\ [][NextAlloc]_vars

(***************************************************************************)
(* Category ranges.                                                        *)
(***************************************************************************)
\* The start of the category that follows cat in the table.
NextStart(cat) ==
    CASE cat = "Variable" -> GlobalStart
      [] cat = "Global" -> SystemStart
      [] cat = "System" -> StaticStart
      [] cat = "Static" -> StackPointerStart
      [] cat = "StackPointer" -> TableSize

\* C19: an allocation hands its category a slot inside the category's
\* range, below the start of the next category, and every allocated slot of
\* the table lies in the range of the category that holds it.
C19_RangesDisjoint ==
    [][AllocStep
       => /\ Allocated.v \in start(Allocated.c) .. (NextStart(Allocated.c) - 1)
          /\ \A i \in Slots :
                (registers'[i] \in {"Variable", "Global", "System"})
                => i \in start(registers'[i]) .. (NextStart(registers'[i]) - 1)]_vars

(***************************************************************************)
(* The operands of move.                                                   *)
(***************************************************************************)
\* The entries the call at ip appends before its last one.
Preceding ==
    {bytecode'[prog[ip].e][k] :
        k \in (Len(bytecode[prog[ip].e]) + 1) .. (Len(bytecode'[prog[ip].e]) - 1)}

\* C20: a call of move with at least one Variable register argument that
\* returns emits a move instruction whose operand j is argument j itself
\* when that is a Variable register, and otherwise a System register that
\* was free before the call and that a preceding add with zero loads with
\* the constant argument j.
C20_MoveOperands ==
    [][(/\ MoveStep
        /\ phase' = "emit"
        /\ \E j \in 1 .. 4 : isVariableRegister(MoveOperands[j]))
       => \A j \in 1 .. 4 :
             IF isVariableRegister(MoveOperands[j])
             THEN Emitted.f[2 + j] = MoveOperands[j]
             ELSE /\ isRegister(Emitted.f[2 + j])
                  /\ Emitted.f[2 + j].c = "System"
                  /\ registers[Emitted.f[2 + j].v] = "None"
                  /\ Instruction(<<Num(MATH), Num(Math_ADD_I), Emitted.f[2 + j],
                                   zero, MoveOperands[j]>>) \in Preceding]_vars

\* C21 - VM constant slots: in every state reached while the VM executes a
\* program produced by the assembler, memory slot 251 (ONE) holds 1 and
\* memory slot 252 (ZERO) holds 0.
C21_ConstantSlots ==
    (phase \in {"run", "crashed"}) => (memory[ONE] = 1 /\ memory[ZERO] = 0)

\* The emitter call at ip returns or raises.
EmitterStep == phase = "emit" /\ ip <= Len(prog) /\ ip' = ip + 1

\* The caller's own free() of the register held in slot i.
FreedByCaller(i) ==
    /\ prog[ip].op = "free"
    /\ Resolve(prog[ip].a[1], prog[ip].e).v = i

\* C22 - No aliasing of live registers: an emitter operation leaves every
\* register the caller allocated and has not freed marked allocated in the
\* register table, and an allocation never returns the slot of such a
\* register; move() in particular does not release a Variable register
\* passed to it as an argument.
C22_NoAliasing ==
    [][EmitterStep =>
        \A k \in 1 .. Len(uregs) :
            (registers[uregs[k].v] = uregs[k].c /\ ~FreedByCaller(uregs[k].v))
                => /\ registers'[uregs[k].v] = uregs[k].c
                   /\ (Len(uregs') > Len(uregs) => Allocated.v # uregs[k].v)]_vars

====
